---- MODULE Spec2Model ----
(***************************************************************************)
(* Model of the undo/redo history (src/src/lib.rs) and of the ring buffer  *)
(* it is built on (src/src/stack.rs).                                      *)
(*                                                                         *)
(* The timeline is the LoopedStack `entries` with its physical slots, its  *)
(* length and its offset; the redo stack is the Vec `undo_stack`; the      *)
(* baselines are the HashMap `baselines`; `stateful` is the live state of  *)
(* each model, reached through Stateful::state.                            *)
(***************************************************************************)
EXTENDS Integers, Sequences, FiniteSets, TLC

\* ---------------------------------------------------------------- bounds
MaxCapacity == 3      \* capacities 1..MaxCapacity are explored
MaxCalls == 7         \* calls of one recorded editing session (SpecEdits)

\* ------------------------------------------------------------- constants
Models == {"Model_1", "Model_2"}
\* The contents of a model and of a snapshot. History never looks into a
\* snapshot (Box<dyn Snapshot>): it only moves it and hands it to restore, so
\* two distinguishable contents tell every placement of a snapshot apart.
Values == {0, 1}
NoBaseline == -1      \* HashMap::get(..) == None
NoEntry == [typ |-> "none", snaps |-> 0]   \* Option::None / slot not initialised

VARIABLES entries, undo_stack, baselines, stateful, last, run, undone, log, dropped, held
vars == <<entries, undo_stack, baselines, stateful, last, run, undone, log, dropped, held>>

\* ------------------------------------------------------ stack.rs: LoopedStack
LoopedStack_new(size) ==
    [buf |-> [i \in 0..(size - 1) |-> NoEntry], size |-> size, len |-> 0, offset |-> 0]

cursor(s) == (s.offset + s.len) % s.size

offset(s, index) == (s.offset + index) % s.size

push_new(s, value) ==
    [s EXCEPT !.buf[cursor(s)] = value, !.len = s.len + 1]

\* a push_inplace that overwrites the slot and leaves the offset where it is
push_inplace_stay(s, value) ==
    [stack |-> [s EXCEPT !.buf[cursor(s)] = value],
     ret |-> s.buf[cursor(s)]]

push_inplace(s, value) ==
    [stack |-> [s EXCEPT !.buf[cursor(s)] = value,
                         !.offset = (s.offset + 1) % s.size],
     ret |-> s.buf[cursor(s)]]

LoopedStack_push(s, value) ==
    IF s.len < s.size
    THEN [stack |-> push_new(s, value), ret |-> NoEntry]
    ELSE push_inplace(s, value)

RECURSIVE LoopedStack_extend(_, _)
LoopedStack_extend(s, values) ==
    IF values = <<>> THEN s
    ELSE LoopedStack_extend(LoopedStack_push(s, Head(values)).stack, Tail(values))

LoopedStack_get(s, index) ==
    IF index >= s.len THEN NoEntry ELSE s.buf[offset(s, index)]

\* a pop that reads the slot at the cursor before the length is decremented
LoopedStack_pop_early(s) ==
    IF s.len = 0
    THEN [stack |-> s, ret |-> NoEntry]
    ELSE LET t == [s EXCEPT !.len = s.len - 1]
         IN  [stack |-> [t EXCEPT !.buf[cursor(s)] = NoEntry], ret |-> s.buf[cursor(s)]]

LoopedStack_pop(s) ==
    IF s.len = 0
    THEN [stack |-> s, ret |-> NoEntry]
    ELSE LET t == [s EXCEPT !.len = s.len - 1]
         IN  [stack |-> [t EXCEPT !.buf[cursor(t)] = NoEntry], ret |-> t.buf[cursor(t)]]

\* iter().rev(): the entries newest first, as next_back yields them
iter_rev(s) ==
    [k \in 1..s.len |-> s.buf[(s.offset + (s.len - k)) % s.size]]

\* slice_from_raw_parts_mut(ptr.add(start), n): the slots start..start+n-1
Slice(start, n) == [i \in 1..n |-> start + i - 1]

\* a drop that takes the occupied slots to start at slot 0 in every case
Drop_front(s) == Slice(0, s.len)

\* Drop for LoopedStack: the physical slots whose value is dropped, in order
Drop(s) ==
    IF s.len < s.size /\ s.offset # 0
    THEN IF s.offset + s.len <= s.size
         THEN Slice(s.offset, s.len)
         ELSE LET len1 == s.size - s.offset
              IN  Slice(s.offset, len1) \o Slice(0, s.len - len1)
    ELSE Slice(0, s.len)

\* ------------------------------------------------------------ lib.rs: helpers
\* Entry { typ, snaps: Box::new(snapshot) }
NewEntry(typ, snapshot) == [typ |-> typ, snaps |-> snapshot]

can_undo == entries.len > 0

can_redo == Len(undo_stack) > 0

get_last_snapshot_nobaseline(e, b) ==
    LET it == iter_rev(e)
    IN  IF Len(it) = 0 THEN [some |-> FALSE, typ |-> "none", snaps |-> 0]
        ELSE LET snapshot_typ == it[1].typ
                 found == {k \in 2..Len(it) : it[k].typ = snapshot_typ}
             IN  IF found # {}
                 THEN [some |-> TRUE, typ |-> snapshot_typ,
                       snaps |-> it[CHOOSE k \in found : \A j \in found : k <= j].snaps]
                 ELSE [some |-> FALSE, typ |-> "none", snaps |-> 0]

get_last_snapshot_oldest(e, b) ==
    LET it == iter_rev(e)
    IN  IF Len(it) = 0 THEN [some |-> FALSE, typ |-> "none", snaps |-> 0]
        ELSE LET snapshot_typ == it[1].typ
                 found == {k \in 2..Len(it) : it[k].typ = snapshot_typ}
             IN  IF found # {}
                 THEN [some |-> TRUE, typ |-> snapshot_typ,
                       snaps |-> it[CHOOSE k \in found : \A j \in found : k >= j].snaps]
                 ELSE IF b[snapshot_typ] # NoBaseline
                      THEN [some |-> TRUE, typ |-> snapshot_typ, snaps |-> b[snapshot_typ]]
                      ELSE [some |-> FALSE, typ |-> "none", snaps |-> 0]

get_last_snapshot(e, b) ==
    LET it == iter_rev(e)
    IN  IF Len(it) = 0 THEN [some |-> FALSE, typ |-> "none", snaps |-> 0]
        ELSE LET snapshot_typ == it[1].typ
                 found == {k \in 2..Len(it) : it[k].typ = snapshot_typ}
             IN  IF found # {}
                 THEN [some |-> TRUE, typ |-> snapshot_typ,
                       snaps |-> it[CHOOSE k \in found : \A j \in found : k <= j].snaps]
                 ELSE IF b[snapshot_typ] # NoBaseline
                      THEN [some |-> TRUE, typ |-> snapshot_typ, snaps |-> b[snapshot_typ]]
                      ELSE [some |-> FALSE, typ |-> "none", snaps |-> 0]

\* Snapshot::restore on the live state of model typ (tests.rs: overwrite it)
restore_all(st, typ, snaps) == [m \in Models |-> snaps]

restore(st, typ, snaps) == [st EXCEPT ![typ] = snaps]

\* InnerHistory
InnerHistory_push_keep(e, u, entry) ==
    [entries |-> LoopedStack_push(e, entry).stack, undo_stack |-> u]

InnerHistory_push(e, u, entry) ==
    [entries |-> LoopedStack_push(e, entry).stack, undo_stack |-> <<>>]

RECURSIVE Reversed(_)
Reversed(s) == IF s = <<>> THEN <<>> ELSE Append(Reversed(Tail(s)), Head(s))

InnerHistory_insert_rev(e, u, entry) ==
    [entries |-> LoopedStack_push(LoopedStack_extend(e, Reversed(u)), entry).stack,
     undo_stack |-> <<>>]

InnerHistory_insert_discard(e, u, entry) ==
    [entries |-> LoopedStack_push(e, entry).stack, undo_stack |-> <<>>]

InnerHistory_insert(e, u, entry) ==
    [entries |-> LoopedStack_push(LoopedStack_extend(e, u), entry).stack,
     undo_stack |-> <<>>]

InnerHistory_undo_keep(e, u) ==
    LET p == LoopedStack_pop(e)
    IN  IF p.ret # NoEntry
        THEN [entries |-> e, undo_stack |-> Append(u, p.ret)]
        ELSE [entries |-> e, undo_stack |-> u]

InnerHistory_undo(e, u) ==
    LET p == LoopedStack_pop(e)
    IN  IF p.ret # NoEntry
        THEN [entries |-> p.stack, undo_stack |-> Append(u, p.ret)]
        ELSE [entries |-> p.stack, undo_stack |-> u]

InnerHistory_redo_lost(e, entry) == [stack |-> e, ret |-> NoEntry]

\* the value `old` of InnerHistory::redo is the ret of the push
InnerHistory_redo(e, entry) == LoopedStack_push(e, entry)

\* -------------------------------------------------- bookkeeping of the calls
\* the last call: its name, its result, and for push and insert its arguments
\* and the number of entries the redo stack held when it was made
Op(op, res, typ, snaps) ==
    [op |-> op, res |-> res, typ |-> typ, snaps |-> snaps,
     pending |-> IF op \in {"push", "insert"} THEN Len(undo_stack) ELSE 0]

\* no call is in progress: the host is between two calls
Idle == [op |-> "idle", res |-> "Ok", typ |-> "none", snaps |-> 0, pending |-> 0]

NoRun == [typ |-> "none", undos |-> 0]

\* a push of model typ onto a timeline that is full of entries of typ (as the
\* push after capacity pushes of typ in a row is) starts a run; the run counts
\* the successful undos that follow it
RunPush(typ) ==
    IF entries.len = entries.size
       /\ \A i \in 0..(entries.len - 1) : LoopedStack_get(entries, i).typ = typ
    THEN [typ |-> typ, undos |-> 0]
    ELSE NoRun

RunUndo == IF run # NoRun THEN [run EXCEPT !.undos = run.undos + 1] ELSE run

\* the timeline and the redo stack as they were when the call that has just
\* returned, a successful undo, was made; NoUndone after every other call
NoUndone == [some |-> FALSE, entries |-> LoopedStack_new(1), undo_stack |-> <<>>]

BeforeUndo == [some |-> TRUE, entries |-> entries, undo_stack |-> undo_stack]

\* the call in progress is the redo that followed the undo: the undo is no
\* longer the call that has just returned
AfterRedo == [undone EXCEPT !.some = FALSE]

\* ------------------------------------------------------------------- actions
Init ==
    /\ \E capacity \in 1..MaxCapacity : entries = LoopedStack_new(capacity)
    /\ undo_stack = <<>>
    /\ baselines = [m \in Models |-> NoBaseline]
    /\ stateful = [m \in Models |-> 0]
    /\ last = Idle
    /\ run = NoRun
    /\ undone = NoUndone
    /\ log = <<>>
    /\ dropped = <<>>
    /\ held = <<>>

\* the host edits the live state of a model (tests.rs model1_edit)
Edit(typ, v) ==
    /\ last = Idle
    /\ stateful[typ] # v
    /\ stateful' = [stateful EXCEPT ![typ] = v]
    /\ last' = Op("edit", "Ok", "none", 0)
    /\ undone' = NoUndone
    /\ UNCHANGED <<entries, undo_stack, baselines, run>>

\* a begin whose closure is called, and its snapshot stored, at every call
BeginOverwrite(typ) ==
    /\ last = Idle
    /\ \E v \in Values :
          /\ baselines' = [baselines EXCEPT ![typ] = v]
          /\ last' = Op("begin", "Called", typ, v)
    /\ undone' = NoUndone
    /\ UNCHANGED <<entries, undo_stack, stateful, run>>

\* f is called, and its snapshot v stored, only when typ has no baseline; the
\* label tells whether f was called ("Called") or not ("Skipped")
Begin(typ) ==
    /\ last = Idle
    /\ IF baselines[typ] = NoBaseline
       THEN \E v \in Values :
               /\ baselines' = [baselines EXCEPT ![typ] = v]
               /\ last' = Op("begin", "Called", typ, v)
       ELSE /\ baselines' = baselines
            /\ last' = Op("begin", "Skipped", typ, 0)
    /\ undone' = NoUndone
    /\ UNCHANGED <<entries, undo_stack, stateful, run>>

Push(typ, snapshot) ==
    LET r == InnerHistory_push(entries, undo_stack, NewEntry(typ, snapshot))
    IN  /\ last = Idle
        /\ entries' = r.entries
        /\ undo_stack' = r.undo_stack
        /\ last' = Op("push", "Ok", typ, snapshot)
        /\ run' = RunPush(typ)
        /\ undone' = NoUndone
        /\ UNCHANGED <<baselines, stateful>>

Insert(typ, snapshot) ==
    LET r == InnerHistory_insert(entries, undo_stack, NewEntry(typ, snapshot))
    IN  /\ last = Idle
        /\ entries' = r.entries
        /\ undo_stack' = r.undo_stack
        /\ last' = Op("insert", "Ok", typ, snapshot)
        /\ run' = NoRun
        /\ undone' = NoUndone
        /\ UNCHANGED <<baselines, stateful>>

UndoEarly ==
    LET s == get_last_snapshot(entries, baselines)
        r == InnerHistory_undo(entries, undo_stack)
    IN  /\ last = Idle
        /\ IF s.some
           THEN /\ entries' = r.entries
                /\ undo_stack' = r.undo_stack
                /\ \E ok \in BOOLEAN :
                      IF ok
                      THEN /\ stateful' = restore(stateful, s.typ, s.snaps)
                           /\ last' = Op("undo", "Ok", "none", 0)
                           /\ run' = RunUndo
                           /\ undone' = BeforeUndo
                      ELSE /\ last' = Op("undo", "RestoreFailed", "none", 0)
                           /\ undone' = NoUndone
                           /\ UNCHANGED <<stateful, run>>
                /\ UNCHANGED baselines
           ELSE /\ last' = Op("undo", "NoSnapshot", "none", 0)
                /\ undone' = NoUndone
                /\ UNCHANGED <<entries, undo_stack, baselines, stateful, run>>

\* ok: whether Snapshot::restore returns Ok(()) or Err(RestoreFailed)
Undo ==
    LET s == get_last_snapshot(entries, baselines)
        r == InnerHistory_undo(entries, undo_stack)
    IN  /\ last = Idle
        /\ IF s.some
           THEN \E ok \in BOOLEAN :
                  IF ok
                  THEN /\ stateful' = restore(stateful, s.typ, s.snaps)
                       /\ entries' = r.entries
                       /\ undo_stack' = r.undo_stack
                       /\ last' = Op("undo", "Ok", "none", 0)
                       /\ run' = RunUndo
                       /\ undone' = BeforeUndo
                       /\ UNCHANGED baselines
                  ELSE /\ last' = Op("undo", "RestoreFailed", "none", 0)
                       /\ undone' = NoUndone
                       /\ UNCHANGED <<entries, undo_stack, baselines, stateful, run>>
           ELSE /\ last' = Op("undo", "NoSnapshot", "none", 0)
                /\ undone' = NoUndone
                /\ UNCHANGED <<entries, undo_stack, baselines, stateful, run>>

RedoOkEmpty ==
    /\ last = Idle
    /\ undone' = AfterRedo
    /\ IF Len(undo_stack) > 0
       THEN LET entry == undo_stack[Len(undo_stack)]
                popped == SubSeq(undo_stack, 1, Len(undo_stack) - 1)
                r == InnerHistory_redo(entries, entry)
            IN  /\ undo_stack' = popped
                /\ run' = NoRun
                /\ UNCHANGED baselines
                /\ \E ok \in BOOLEAN :
                      IF ok
                      THEN /\ stateful' = restore(stateful, entry.typ, entry.snaps)
                           /\ entries' = r.stack
                           /\ last' = Op("redo",
                                         IF r.ret = NoEntry THEN "Ok" ELSE "AssertFailed",
                                         "none", 0)
                      ELSE /\ last' = Op("redo", "RestoreFailed", "none", 0)
                           /\ UNCHANGED <<entries, stateful>>
       ELSE /\ last' = Op("redo", "Ok", "none", 0)
            /\ run' = NoRun
            /\ UNCHANGED <<entries, undo_stack, baselines, stateful>>

\* the entry is popped off the redo stack before its restore is tried
Redo ==
    /\ last = Idle
    /\ undone' = AfterRedo
    /\ IF Len(undo_stack) > 0
       THEN LET entry == undo_stack[Len(undo_stack)]
                popped == SubSeq(undo_stack, 1, Len(undo_stack) - 1)
                r == InnerHistory_redo(entries, entry)
            IN  /\ undo_stack' = popped
                /\ run' = NoRun
                /\ UNCHANGED baselines
                /\ \E ok \in BOOLEAN :
                      IF ok
                      THEN /\ stateful' = restore(stateful, entry.typ, entry.snaps)
                           /\ entries' = r.stack
                           /\ last' = Op("redo",
                                         IF r.ret = NoEntry THEN "Ok" ELSE "AssertFailed",
                                         "none", 0)
                      ELSE /\ last' = Op("redo", "RestoreFailed", "none", 0)
                           /\ UNCHANGED <<entries, stateful>>
       ELSE /\ last' = Op("redo", "NoSnapshot", "none", 0)
            /\ run' = NoRun
            /\ UNCHANGED <<entries, undo_stack, baselines, stateful>>

\* the call has returned and the host has looked at its result
Return ==
    /\ last # Idle
    /\ last' = Idle
    /\ undone' = IF undone.some THEN undone ELSE NoUndone
    /\ UNCHANGED <<entries, undo_stack, baselines, stateful, run>>

\* the calls of a host that uses the History as it likes
Next ==
    \/ \E typ \in Models, v \in Values : Edit(typ, v) /\ UNCHANGED <<log, dropped, held>>
    \/ \E typ \in Models : Begin(typ) /\ UNCHANGED <<log, dropped, held>>
    \/ \E typ \in Models, v \in Values : Push(typ, v) /\ UNCHANGED <<log, dropped, held>>
    \/ \E typ \in Models, v \in Values : Insert(typ, v) /\ UNCHANGED <<log, dropped, held>>
    \/ Undo /\ UNCHANGED <<log, dropped, held>>
    \/ Redo /\ UNCHANGED <<log, dropped, held>>
    \/ Return /\ UNCHANGED <<log, dropped, held>>

Spec == Init /\ [][Next]_vars

\* ------------------------------------------- a recorded editing session
\* The host of tests.rs (model1_edit): it registers the baseline of its model
\* from the live state, and then every edit of the live state is recorded with
\* a snapshot of the live state as the edit left it. Every edit leaves the
\* model with contents it never had before, so that an entry is known by its
\* snapshot. log holds the calls of the session in the order they were made.
Edited == "Model_1"

Recorded(l) == {i \in 1..Len(l) : l[i].op \in {"edit", "push", "insert"}}

\* an edit not yet recorded by push or insert
Unrecorded(l) == l # <<>> /\ l[Len(l)].op = "edit"

FreshContents(l) == Cardinality(Recorded(l)) + 1

\* snaps: the live state after the edit, before: the live state before it
EditRecord(v) ==
    [op |-> "edit", res |-> "Ok", snaps |-> v, before |-> stateful[Edited]]

CallRecord(op, res) ==
    [op |-> op, res |-> res, snaps |-> 0, before |-> 0]

\* history.begin(MODEL_1, || Snapshot1::new(&state.model1))
SessionBegin ==
    /\ baselines[Edited] = NoBaseline
    /\ Begin(Edited)
    /\ baselines'[Edited] = stateful[Edited]
    /\ UNCHANGED <<log, dropped, held>>

\* testdata.value1 = new_val
SessionEdit ==
    /\ baselines[Edited] # NoBaseline
    /\ Len(log) < MaxCalls
    /\ ~Unrecorded(log)
    /\ Edit(Edited, FreshContents(log))
    /\ log' = Append(log, EditRecord(FreshContents(log)))
    /\ UNCHANGED <<dropped, held>>

\* history.push(MODEL_1, Snapshot1::new(&state.model1))
SessionPush ==
    /\ Unrecorded(log)
    /\ Push(Edited, stateful[Edited])
    /\ log' = [log EXCEPT ![Len(log)].op = "push"]
    /\ UNCHANGED <<dropped, held>>

\* history.insert(MODEL_1, Snapshot1::new(&state.model1)), called in place of
\* push when undone entries are on the redo stack (on an empty redo stack
\* InnerHistory::insert does what InnerHistory::push does)
SessionInsert ==
    /\ Unrecorded(log)
    /\ Len(undo_stack) > 0
    /\ Insert(Edited, stateful[Edited])
    /\ log' = [log EXCEPT ![Len(log)].op = "insert"]
    /\ UNCHANGED <<dropped, held>>

SessionUndo ==
    /\ baselines[Edited] # NoBaseline
    /\ ~Unrecorded(log)
    /\ Len(log) < MaxCalls
    /\ Undo
    /\ log' = Append(log, CallRecord("undo", last'.res))
    /\ UNCHANGED <<dropped, held>>

SessionRedo ==
    /\ baselines[Edited] # NoBaseline
    /\ ~Unrecorded(log)
    /\ Len(log) < MaxCalls
    /\ Redo
    /\ log' = Append(log, CallRecord("redo", last'.res))
    /\ UNCHANGED <<dropped, held>>

NextEdits ==
    \/ SessionBegin
    \/ SessionEdit
    \/ SessionPush
    \/ SessionInsert
    \/ SessionUndo
    \/ SessionRedo
    \/ Return /\ UNCHANGED <<log, dropped, held>>

SpecEdits == Init /\ [][NextEdits]_vars

\* ------------------------------------------- the ring buffer on its own
\* A LoopedStack used directly, as in the tests of stack.rs: entries is the
\* buffer, last the call made last with its arguments and the value it
\* returned, dropped the slots the destructor has dropped. held is what the
\* caller has seen: the values it pushed, oldest first, without those a pop
\* or a push has handed back to it.
Elements == {NewEntry(typ, v) : typ \in Models, v \in Values}

Arguments == {<<a>> : a \in Elements} \cup {<<a, b>> : a \in Elements, b \in Elements}

StackOp(op, args, ret) == [op |-> op, args |-> args, ret |-> ret]

\* q without its i-th element
Without(q, i) == SubSeq(q, 1, i - 1) \o SubSeq(q, i + 1, Len(q))

\* the caller pushed value and got ret back: ret, when it is a value, is the
\* oldest of the values like it that the caller has not got back yet
HeldAfterPush(h, value, ret) ==
    LET q == Append(h, value)
        like == {i \in 1..Len(q) : q[i] = ret}
    IN  IF like = {} THEN q
        ELSE Without(q, CHOOSE i \in like : \A j \in like : i <= j)

\* the caller got ret back from pop: the newest of the values like it
HeldAfterPop(h, ret) ==
    LET like == {i \in 1..Len(h) : h[i] = ret}
    IN  IF like = {} THEN h
        ELSE Without(h, CHOOSE i \in like : \A j \in like : i >= j)

RECURSIVE HeldAfterExtend(_, _, _)
HeldAfterExtend(s, h, values) ==
    IF values = <<>> THEN h
    ELSE LET r == LoopedStack_push(s, Head(values))
         IN  HeldAfterExtend(r.stack, HeldAfterPush(h, Head(values), r.ret),
                             Tail(values))

StackPush(value) ==
    LET r == LoopedStack_push(entries, value)
    IN  /\ last.op # "stack_drop"
        /\ entries' = r.stack
        /\ last' = StackOp("stack_push", <<value>>, r.ret)
        /\ held' = HeldAfterPush(held, value, r.ret)
        /\ UNCHANGED <<undo_stack, baselines, stateful, run, undone, log, dropped>>

StackExtend(values) ==
    /\ last.op # "stack_drop"
    /\ entries' = LoopedStack_extend(entries, values)
    /\ last' = StackOp("stack_extend", values, NoEntry)
    /\ held' = HeldAfterExtend(entries, held, values)
    /\ UNCHANGED <<undo_stack, baselines, stateful, run, undone, log, dropped>>

StackPop ==
    LET r == LoopedStack_pop(entries)
    IN  /\ last.op # "stack_drop"
        /\ entries' = r.stack
        /\ last' = StackOp("stack_pop", <<>>, r.ret)
        /\ held' = HeldAfterPop(held, r.ret)
        /\ UNCHANGED <<undo_stack, baselines, stateful, run, undone, log, dropped>>

\* the buffer goes out of scope
StackDrop ==
    /\ last.op # "stack_drop"
    /\ dropped' = Drop(entries)
    /\ last' = StackOp("stack_drop", <<>>, NoEntry)
    /\ UNCHANGED <<entries, undo_stack, baselines, stateful, run, undone, log, held>>

NextStack ==
    \/ \E value \in Elements : StackPush(value)
    \/ \E values \in Arguments : StackExtend(values)
    \/ StackPop
    \/ StackDrop

SpecStack == Init /\ [][NextStack]_vars

\* ------------------------------------------------------ views for the claims
\* the timeline in logical order, oldest first (index 0 of get first)
Timeline(s) == [i \in 1..s.len |-> LoopedStack_get(s, i - 1)]

Newest(s) == LoopedStack_get(s, s.len - 1)

Top(u) == u[Len(u)]

Front(q) == SubSeq(q, 1, Len(q) - 1)

Suffix(q, n) == SubSeq(q, Len(q) - n + 1, Len(q))

MinOf(a, b) == IF a <= b THEN a ELSE b

\* C1: a successful undo writes into the live state of the newest entry's
\* model the snapshot of the nearest older timeline entry of the same model,
\* and that model's baseline when the timeline holds no other entry of it.
C1_UndoRestoresPrevious ==
    [][(last'.op = "undo" /\ last'.res = "Ok") =>
        LET T == Timeline(entries)
            n == Len(T)
            older == {i \in 1..(n - 1) : T[i].typ = T[n].typ}
            nearest == CHOOSE i \in older : \A j \in older : j <= i
        IN  /\ n > 0
            /\ IF older # {}
               THEN stateful'[T[n].typ] = T[nearest].snaps
               ELSE /\ baselines[T[n].typ] # NoBaseline
                    /\ stateful'[T[n].typ] = baselines[T[n].typ]]_vars

\* an undo has skipped the entry of another model and restored the older
\* snapshot of its own model, which differs from the model's baseline
C1_Witness ==
    /\ last.op = "undo" /\ last.res = "Ok"
    /\ entries.len = 2
    /\ Len(undo_stack) > 0
    /\ Newest(entries).typ # Top(undo_stack).typ
    /\ LoopedStack_get(entries, 0).typ = Top(undo_stack).typ
    /\ stateful[Top(undo_stack).typ] = LoopedStack_get(entries, 0).snaps
    /\ Top(undo_stack).snaps # LoopedStack_get(entries, 0).snaps
    /\ baselines[Top(undo_stack).typ] \notin {NoBaseline, stateful[Top(undo_stack).typ]}

\* C2: an undo or a redo changes the live state of no model other than the
\* model of the entry it undoes (the newest timeline entry) or redoes (the
\* top of the redo stack).
C2_OnlyOneModelChanges ==
    [][last'.op \in {"undo", "redo"} =>
        \A m \in Models :
            stateful'[m] # stateful[m] =>
                \/ last'.op = "undo" /\ entries.len > 0 /\ m = Newest(entries).typ
                \/ last'.op = "redo" /\ Len(undo_stack) > 0 /\ m = Top(undo_stack).typ]_vars

\* pushes A2=1, B1=1, A3=0 with B's baseline 0, then two undos: A is at A2,
\* B is back at its baseline
C2_Witness ==
    /\ last.op = "undo" /\ last.res = "Ok"
    /\ undo_stack = <<[typ |-> "Model_1", snaps |-> 0], [typ |-> "Model_2", snaps |-> 1]>>
    /\ entries.len > 0
    /\ Newest(entries) = [typ |-> "Model_1", snaps |-> 1]
    /\ baselines["Model_2"] = 0
    /\ stateful = [m \in Models |-> IF m = "Model_1" THEN 1 ELSE 0]

\* C3: an undo whose restore fails returns RestoreFailed and leaves the
\* timeline and the redo stack as they were; the newest entry moves to the
\* redo stack exactly when the restore succeeded.
C3_FailedUndoKeepsStacks ==
    [][last'.op = "undo" =>
        IF last'.res = "Ok"
        THEN /\ entries.len > 0
             /\ Timeline(entries') = Front(Timeline(entries))
             /\ undo_stack' = Append(undo_stack, Newest(entries))
        ELSE /\ last'.res \in {"RestoreFailed", "NoSnapshot"}
             /\ entries' = entries
             /\ undo_stack' = undo_stack]_vars

C3_Witness ==
    /\ last.op = "undo" /\ last.res = "RestoreFailed"
    /\ entries.len > 0
    /\ Len(undo_stack) > 0

\* C4: a redo whose restore fails leaves the timeline and the redo stack as
\* they were.
C4_FailedRedoKeepsStacks ==
    [][(last'.op = "redo" /\ last'.res = "RestoreFailed") =>
        /\ entries' = entries
        /\ undo_stack' = undo_stack]_vars

\* C5: the timeline and the redo stack together never hold more entries than
\* the capacity.
C5_CapacityInvariant == entries.len + Len(undo_stack) <= entries.size

C5_Witness ==
    /\ entries.size = 3
    /\ entries.offset # 0
    /\ entries.len = 1
    /\ Len(undo_stack) = 2

\* C6: whenever redo pushes the redone entry back, the timeline has a free
\* slot: the push evicts nothing and the assertion of InnerHistory::redo holds.
C6_RedoNeverEvicts ==
    [][(last'.op = "redo" /\ last'.res \notin {"NoSnapshot", "RestoreFailed"}) =>
        /\ last'.res = "Ok"
        /\ entries.len < entries.size
        /\ entries'.len = entries.len + 1
        /\ entries'.offset = entries.offset
        /\ Timeline(entries') = Append(Timeline(entries), Top(undo_stack))]_vars

\* a redo has filled the last free slot of a timeline that had wrapped around
C6_Witness ==
    /\ last.op = "redo" /\ last.res = "Ok"
    /\ entries.len = entries.size
    /\ entries.size > 1
    /\ entries.offset # 0

\* C7: after capacity + 1 (or more) pushes of one model in a row, with the
\* model's baseline registered, an undo returns NoSnapshot exactly when
\* capacity undos have succeeded since; the last of them restores the baseline.
C7_CapacityBoundary ==
    [][(last'.op = "undo" /\ run # NoRun /\ baselines[run.typ] # NoBaseline) =>
        /\ run.undos <= entries.size
        /\ run.undos < entries.size => last'.res # "NoSnapshot"
        /\ run.undos = entries.size => last'.res = "NoSnapshot"
        /\ (run.undos = entries.size - 1 /\ last'.res = "Ok") =>
                stateful'[run.typ] = baselines[run.typ]]_vars

\* capacity 3: after the evicting push three undos have succeeded, the third
\* has restored the baseline, and a fourth undo has returned NoSnapshot
C7_Witness ==
    /\ entries.size = 3
    /\ run # NoRun /\ run.undos = 3
    /\ last.op = "undo" /\ last.res = "NoSnapshot"
    /\ baselines[run.typ] # NoBaseline
    /\ stateful[run.typ] = baselines[run.typ]
    /\ Len(undo_stack) = 3
    /\ undo_stack[1].snaps # baselines[run.typ]
    /\ undo_stack[3].snaps # baselines[run.typ]

\* C8: a push empties the redo stack, so that can_redo is false and the next
\* redo returns NoSnapshot; the timeline afterwards is the old timeline (less
\* an evicted oldest entry) followed by the new entry, so the entries that
\* were on the redo stack are in neither container.
C8_PushDiscardsRedo ==
    [][/\ last'.op = "push" =>
            LET new == [typ |-> last'.typ, snaps |-> last'.snaps]
                full == Append(Timeline(entries), new)
            IN  /\ undo_stack' = <<>>
                /\ ~can_redo'
                /\ Newest(entries') = new
                /\ Timeline(entries') = Suffix(full, MinOf(entries.size, Len(full)))
       /\ (undo_stack = <<>> /\ last'.op = "redo") =>
            /\ last'.res = "NoSnapshot"
            /\ undo_stack' = <<>>]_vars

\* a push made with two undone entries on the redo stack has discarded them
C8_Witness ==
    /\ last.op = "push" /\ last.pending = 2
    /\ entries.len = 2
    /\ undo_stack = <<>>

\* C9 as stated: after an insert the redo stack is empty and every entry that
\* was on it is in the timeline, at its place after the old timeline entries.
C9_InsertKeepsEveryUndone ==
    [][last'.op = "insert" =>
        LET T == Timeline(entries)
            evicted == Len(T) + Len(undo_stack) + 1 - entries'.len
        IN  /\ ~can_redo'
            /\ \A i \in 1..Len(undo_stack) :
                  /\ Len(T) + i > evicted
                  /\ Timeline(entries')[Len(T) + i - evicted] = undo_stack[i]]_vars

\* C9 amended: after an insert the redo stack is empty and every entry that
\* was on it is in the timeline, except the entry undone first when the
\* timeline was empty and the redo stack held capacity entries: the push of
\* the new entry evicts that one.
C9_InsertKeepsUndoneUnlessFull ==
    [][last'.op = "insert" =>
        LET T == Timeline(entries)
            evicted == Len(T) + Len(undo_stack) + 1 - entries'.len
            lost == {i \in 1..Len(undo_stack) : Len(T) + i <= evicted}
        IN  /\ ~can_redo'
            /\ \A i \in (1..Len(undo_stack)) \ lost :
                  Timeline(entries')[Len(T) + i - evicted] = undo_stack[i]
            /\ lost = IF Len(T) = 0 /\ Len(undo_stack) = entries.size THEN {1} ELSE {}]_vars

\* an insert made with an empty timeline and a full redo stack
C9_Witness ==
    /\ last.op = "insert" /\ last.pending = entries.size
    /\ entries.size = 3
    /\ entries.len = 3
    /\ entries.offset = 1

\* C10: insert pushes the redo stack back oldest-undone first and then the
\* new entry: the timeline afterwards is the newest min(C, |T|+|R|+1) elements
\* of T ++ R ++ [new].
C10_InsertOrder ==
    [][last'.op = "insert" =>
        LET new == [typ |-> last'.typ, snaps |-> last'.snaps]
            full == Append(Timeline(entries) \o undo_stack, new)
        IN  /\ Timeline(entries') = Suffix(full, MinOf(entries.size, Len(full)))
            /\ undo_stack' = <<>>]_vars

\* an insert has put back two different undone entries behind an older one
C10_Witness ==
    /\ last.op = "insert" /\ last.pending = 2
    /\ entries.len = 3
    /\ LoopedStack_get(entries, 0) # LoopedStack_get(entries, 1)
    /\ LoopedStack_get(entries, 0).snaps # baselines[LoopedStack_get(entries, 0).typ]

\* C11: an undo called with an empty timeline and a redo called with an empty
\* redo stack return NoSnapshot and leave the timeline, the redo stack, the
\* baselines and every model's live state as they were.
C11_EmptyCallsChangeNothing ==
    [][((last'.op = "undo" /\ entries.len = 0)
            \/ (last'.op = "redo" /\ undo_stack = <<>>))
        => /\ last'.res = "NoSnapshot"
           /\ entries' = entries
           /\ undo_stack' = undo_stack
           /\ baselines' = baselines
           /\ stateful' = stateful]_vars

\* an undo has just returned NoSnapshot on an empty timeline, although every
\* model has a baseline and undone entries wait on the redo stack
C11_Witness ==
    /\ last.op = "undo"
    /\ last.res = "NoSnapshot"
    /\ entries.len = 0
    /\ Len(undo_stack) = 2
    /\ \A m \in Models : baselines[m] # NoBaseline
    /\ stateful["Model_1"] = 1

\* the session so far is k edits recorded by push followed by undos only
PushesThenUndos(k) ==
    /\ k <= Len(log)
    /\ \A i \in 1..k : log[i].op = "push"
    /\ \A i \in (k + 1)..Len(log) : log[i].op = "undo"

SuccessfulUndos(k) ==
    Cardinality({i \in (k + 1)..Len(log) : log[i].res = "Ok"})

\* C12: in a session of one model with a baseline S0, after k <= capacity
\* states S1..Sk were recorded by push and j undos then succeeded, the live
\* state is S(k-j): the baseline when j = k, else the state the (k-j)th push
\* recorded.
C12_RoundTrip ==
    \A k \in 0..MaxCalls :
        (baselines[Edited] # NoBaseline /\ PushesThenUndos(k) /\ k <= entries.size)
        => LET j == SuccessfulUndos(k)
           IN  /\ j <= k
               /\ stateful[Edited] =
                      IF k - j = 0 THEN baselines[Edited] ELSE log[k - j].snaps

\* S1, S2, S3 were pushed and two undos succeeded: the live state is S1
C12_Witness ==
    /\ PushesThenUndos(3)
    /\ SuccessfulUndos(3) = 2
    /\ entries.size = 3
    /\ stateful[Edited] = log[1].snaps
    /\ log[1].snaps # log[2].snaps
    /\ log[2].snaps # log[3].snaps

\* C13: a successful redo writes the snapshot of the entry it takes off the
\* redo stack into the live state of that entry's model; when the redo is the
\* call right after a successful undo, it takes the entry that undo moved,
\* and the timeline and the redo stack hold afterwards the entries they held
\* before the undo, in the same order.
C13_UndoRedoRoundTrip ==
    [][(last'.op = "redo" /\ last'.res = "Ok")
        => LET e == Top(undo_stack)
           IN  /\ stateful'[e.typ] = e.snaps
               /\ undone.some
                    => /\ e = Newest(undone.entries)
                       /\ Timeline(entries') = Timeline(undone.entries)
                       /\ undo_stack' = undone.undo_stack]_vars

\* a redo right after an undo has succeeded, with entries of both models in a
\* timeline of three and another undone entry left on the redo stack
C13_Witness ==
    /\ last.op = "redo"
    /\ last.res = "Ok"
    /\ undone.entries = entries
    /\ entries.len = 2
    /\ entries.size = 3
    /\ Len(undo_stack) = 1
    /\ Newest(entries).typ # LoopedStack_get(entries, 0).typ
    /\ stateful[Newest(entries).typ] = 1

\* C14: begin calls f and stores its snapshot as the baseline of the model
\* only when the model has no baseline; a begin for a model that has one does
\* not call f and leaves the baselines as they are; no begin changes the
\* timeline or the redo stack, and no other call changes any baseline.
C14_BeginIdempotent ==
    [][/\ last'.op = "begin"
          => /\ entries' = entries
             /\ undo_stack' = undo_stack
             /\ IF baselines[last'.typ] = NoBaseline
                THEN /\ last'.res = "Called"
                     /\ baselines' = [baselines EXCEPT ![last'.typ] = last'.snaps]
                ELSE /\ last'.res = "Skipped"
                     /\ baselines' = baselines
       /\ last'.op # "begin" => baselines' = baselines]_vars

\* a begin for a model that has a baseline has returned without calling f,
\* with entries in the timeline and on the redo stack, and with the live
\* state of the model differing from its baseline
C14_Witness ==
    /\ last.op = "begin"
    /\ last.res = "Skipped"
    /\ baselines[last.typ] # NoBaseline
    /\ stateful[last.typ] # baselines[last.typ]
    /\ entries.len > 0
    /\ Len(undo_stack) > 0

\* C15: the length of the ring buffer stays within 0..C; a push onto a
\* buffer that is not full returns none and makes it one longer; a push onto
\* a full buffer returns the element that was at logical index 0, leaves the
\* length at C, and moves every other element one logical index down, the
\* new value being at logical index C-1.
C15_PushBounded ==
    [][/\ entries'.len >= 0
       /\ entries'.len <= entries'.size
       /\ last'.op = "stack_push"
          => IF entries.len < entries.size
             THEN /\ last'.ret = NoEntry
                  /\ entries'.len = entries.len + 1
             ELSE /\ last'.ret = LoopedStack_get(entries, 0)
                  /\ last'.ret # NoEntry
                  /\ entries'.len = entries.size
                  /\ \A i \in 1..(entries.size - 1) :
                        LoopedStack_get(entries', i - 1) = LoopedStack_get(entries, i)
                  /\ LoopedStack_get(entries', entries.size - 1) = last'.args[1]]_vars

\* a push onto a full buffer of capacity 3 that had wrapped around before has
\* returned the oldest element, which differs from the two that stay
C15_Witness ==
    /\ last.op = "stack_push"
    /\ last.ret # NoEntry
    /\ entries.size = 3
    /\ entries.len = 3
    /\ entries.offset = 2
    /\ last.ret # LoopedStack_get(entries, 0)
    /\ last.ret # LoopedStack_get(entries, 1)
    /\ LoopedStack_get(entries, 0) # LoopedStack_get(entries, 1)

\* the values in the slots the destructor dropped, and how often x is held
DroppedValues == [i \in 1..Len(dropped) |-> entries.buf[dropped[i]]]

Count(q, x) == Cardinality({i \in 1..Len(q) : q[i] = x})

\* C16: the destructor of the ring buffer drops the occupied physical slots,
\* (offset+i) mod C for 0 <= i < len, each of them once and no other slot;
\* the values it drops are the values pushed and not handed back by a pop or
\* a push, so that no value handed back is dropped by the buffer as well.
C16_DropOccupiedOnce ==
    last.op = "stack_drop"
    => /\ \A i, j \in 1..Len(dropped) : dropped[i] = dropped[j] => i = j
       /\ {dropped[i] : i \in 1..Len(dropped)}
             = {(entries.offset + i) % entries.size : i \in 0..(entries.len - 1)}
       /\ \A i \in 1..Len(dropped) : DroppedValues[i] # NoEntry
       /\ \A x \in Elements : Count(DroppedValues, x) = Count(held, x)

\* the buffer of capacity 3 is dropped after it wrapped around and a pop left
\* a hole in the middle: the slots 2 and 0 are occupied, slot 1 is not
C16_Witness ==
    /\ last.op = "stack_drop"
    /\ entries.size = 3
    /\ entries.offset = 2
    /\ entries.len = 2
    /\ dropped = <<2, 0>>
    /\ entries.buf[1] = NoEntry
    /\ entries.buf[2] # entries.buf[0]

\* C17: a pop from a buffer that is not empty returns the value pushed last
\* among those not handed back by a pop or a push before, which is the value
\* at logical index len-1; it makes the buffer one shorter and leaves the
\* offset and the other elements where they are; a pop from an empty buffer
\* returns none and changes nothing.
C17_PopLifo ==
    [][last'.op = "stack_pop"
        => IF entries.len > 0
           THEN /\ last'.ret = held[Len(held)]
                /\ last'.ret = LoopedStack_get(entries, entries.len - 1)
                /\ last'.ret # NoEntry
                /\ entries'.len = entries.len - 1
                /\ entries'.offset = entries.offset
                /\ Timeline(entries') = Front(Timeline(entries))
           ELSE /\ last'.ret = NoEntry
                /\ entries' = entries
                /\ held' = held]_vars

\* a pop has returned the newest value of a buffer of capacity 3 that had
\* evicted elements before, and the value differs from the two that stay
C17_Witness ==
    /\ last.op = "stack_pop"
    /\ last.ret # NoEntry
    /\ entries.size = 3
    /\ entries.len = 2
    /\ entries.offset = 2
    /\ last.ret # LoopedStack_get(entries, 0)
    /\ last.ret # LoopedStack_get(entries, 1)
    /\ held = Timeline(entries)

\* the entries of the timeline, oldest first, followed by the undone ones
\* from the one undone last to the one undone first
Recordings == Timeline(entries) \o Reversed(undo_stack)

\* C18: in a session whose every recorded entry has a snapshot of its own, no
\* entry is held twice, neither in both the timeline and the redo stack nor
\* twice in one of them; a successful undo moves one entry from the timeline
\* to the redo stack and a successful redo moves one back, and the sequence
\* timeline ++ reverse(redo stack) is the same before and after.
C18_EntriesMoveOnly ==
    [][/\ \A i, j \in 1..Len(Recordings') : Recordings'[i] = Recordings'[j] => i = j
       /\ (last'.op = "undo" /\ last'.res = "Ok")
          => /\ Recordings' = Recordings
             /\ entries'.len = entries.len - 1
             /\ Len(undo_stack') = Len(undo_stack) + 1
       /\ (last'.op = "redo" /\ last'.res = "Ok")
          => /\ Recordings' = Recordings
             /\ entries'.len = entries.len + 1
             /\ Len(undo_stack') = Len(undo_stack) - 1]_vars

\* a redo has succeeded after three recorded edits and two undos: two entries
\* are in the timeline and one is on the redo stack
C18_Witness ==
    /\ last.op = "redo"
    /\ last.res = "Ok"
    /\ entries.len = 2
    /\ Len(undo_stack) = 1
    /\ Cardinality(Recorded(log)) = 3

\* C19: whatever calls were made before, and whether or not begin was called
\* for a model before its push or insert, an undo called while can_undo() is
\* true (the timeline is not empty) does not return NoSnapshot.
C19_NoSnapshotOnlyWhenEmpty ==
    [][(last'.op = "undo" /\ entries.len > 0) => last'.res # "NoSnapshot"]_vars

\* the live state as it was before the edit that left the contents v
BeforeOf(v) == log[CHOOSE i \in Recorded(log) : log[i].snaps = v].before

\* fewer entries were recorded than the timeline has room for
NoEviction == Cardinality(Recorded(log)) < entries.size

RecordedByPush == \A i \in Recorded(log) : log[i].op = "push"

\* C20, in the sessions of one model with a baseline whose edits are all
\* recorded by push, without eviction and with undos and redos interleaved:
\* a successful undo leaves the live state as it was right before the undone
\* entry was recorded.
C20_UndoToStateBeforeRecording ==
    (last.op = "undo" /\ last.res = "Ok" /\ NoEviction /\ RecordedByPush)
    => stateful[Edited] = BeforeOf(Top(undo_stack).snaps)

====
